---- MODULE Spec2Model ----
(***************************************************************************)
(* carml: the asynchronous coordination layer of the circ, events and      *)
(* relay commands (src/carml/carml_circ.py, carml_events.py,               *)
(* carml_relay.py).  Each command is a Twisted inlineCallbacks coroutine;  *)
(* an action below is one uninterrupted run of a coroutine or of a         *)
(* callback between two suspension points.  The code is read as Python 2   *)
(* (map builds a list, dict.values() is a list).                           *)
(***************************************************************************)
EXTENDS Integers, Sequences, FiniteSets, TLC

VARIABLES
    cmd,            \* the command being run: "build", "delete", "events", "await"
    pc,             \* position of the command's coroutine
    result,         \* completion of the command's Deferred
    state_routers,  \* state.routers: dict from name / "$"+fingerprint to router
    entry_guards,   \* state.entry_guards.values()
    \* ---- carml_circ.build_circuit
    path,           \* the `routers` argument: list of tokens
    requests,       \* build requests submitted to the daemon
    newId,          \* id the daemon gave the new circuit (0: request rejected / none)
    listeners,      \* circuit listeners registered with the state
    all_done,       \* the all_done Deferred of the running command
    cbErrors,       \* exceptions raised by listener callbacks into the dispatcher
    notifs,         \* circuit notifications delivered so far
    lastNotif,      \* the circuit notification delivered last
    resolvedBy,     \* notifications that fired all_done, in order
    firstTerminal,  \* first built/closed/failed delivered to the listener for its id
    missed,         \* a built/failed for newId was delivered with no listener registered
    \* ---- carml_circ.run (delete) / delete_circuit
    delete,         \* the `delete` argument: list of circuit ids
    if_unused,      \* the `if_unused` argument
    circuits,       \* keys of state.circuits
    dpc,            \* position of each delete_circuit coroutine
    dres,           \* completion of each delete_circuit Deferred
    closeRequests,  \* close requests sent to the daemon
    closedSeen,     \* ids whose CLOSED notification has been delivered
    \* ---- carml_events.run
    events,         \* the `events` argument: list of event names
    list_events,    \* the `list_events` argument
    once,           \* the `once` argument
    show_event,     \* the `show_event` argument
    count,          \* the `count` argument
    counter,        \* counter[0]
    evListeners,    \* listeners registered with tor.protocol, in order
    emitted,        \* payloads printed by _got_event
    deliveries,     \* calls of _got_event
    cancelledAt,    \* calls of _got_event made when run was cancelled (-1: not cancelled)
    \* ---- carml_relay.router_await
    arg,            \* the `arg` argument of router_await
    ncListeners,    \* NEWCONSENSUS listeners registered with state.protocol
    waitingOn,      \* the _when_updated Deferred _await_router is suspended on
    whenFired,      \* the _when_updated Deferreds that have fired
    created,        \* number of _when_updated calls so far
    seen,           \* was the router in the snapshot: at the start, at each refresh
    resolvedAt,     \* number of refreshes delivered when router_await got its router
    \* ---- cli._run_command
    cfg_info,       \* cfg.info
    cfg_debug,      \* cfg.debug
    tor,            \* completion of txtorcon.connect(reactor, ep)
    info,           \* completion of tor.proto.get_info(...)
    command,        \* completion of the Deferred of cmd(reactor, cfg, tor, ...)
    codes,          \* codes[0]
    stops,          \* calls of reactor.stop()
    exitCode,       \* argument of sys.exit (-1: not called)
    stdout          \* what _run_command has printed

circVars == <<path, requests, newId, listeners, cbErrors, notifs, lastNotif,
              resolvedBy, firstTerminal, missed>>
delVars == <<delete, if_unused, circuits, dpc, dres, closeRequests, closedSeen>>
evVars == <<events, list_events, once, show_event, count, counter, evListeners,
            emitted, deliveries, cancelledAt>>
awaitVars == <<arg, ncListeners, waitingOn, whenFired, created, seen, resolvedAt>>
runVars == <<cfg_info, cfg_debug, tor, info, command, codes, stops, exitCode, stdout>>
vars == <<cmd, pc, result, state_routers, entry_guards, all_done, circVars, delVars,
          evVars, awaitVars, runVars>>

----------------------------------------------------------------------------
(* Bounds of the model *)
MaxPath == 2        \* longest path given to --build
MaxNotifs == 2      \* circuit notifications delivered in one run
MaxDelete == 2      \* longest list given to --delete
MaxEvents == 2      \* most event names given to the events command
MaxCount == 2       \* largest --count
MaxDeliveries == 4  \* calls of _got_event in one run
MaxRefresh == 4     \* NEWCONSENSUS notifications in one run

(* The length of a hex fingerprint, as find_router tests it *)
IdLen == 40

----------------------------------------------------------------------------
(* A string is the sequence of its runs, [c |-> character, n |-> length],  *)
(* no two neighbours of the same character: "$bbb" is <<("$",1), ("b",3)>>. *)
Rep(c, n) == IF n = 0 THEN <<>> ELSE <<[c |-> c, n |-> n]>>

(* s + t *)
Cat(s, t) ==
    IF s = <<>> THEN t
    ELSE IF t = <<>> THEN s
    ELSE IF s[Len(s)].c = t[1].c
         THEN SubSeq(s, 1, Len(s) - 1)
              \o <<[c |-> t[1].c, n |-> s[Len(s)].n + t[1].n]>>
              \o Tail(t)
         ELSE s \o t

(* The string of a sequence of characters, and back *)
RECURSIVE Lit(_)
Lit(chars) == IF chars = <<>> THEN <<>> ELSE Cat(Rep(Head(chars), 1), Lit(Tail(chars)))

RECURSIVE ToChars(_)
ToChars(s) ==
    IF s = <<>> THEN <<>>
    ELSE [i \in 1..Head(s).n |-> Head(s).c] \o ToChars(Tail(s))

(* len(s) *)
RECURSIVE StrLen(_)
StrLen(s) == IF s = <<>> THEN 0 ELSE Head(s).n + StrLen(Tail(s))

RECURSIVE Normalise(_)
Normalise(runs) ==
    IF runs = <<>> THEN <<>> ELSE Cat(<<Head(runs)>>, Normalise(Tail(runs)))

Sigil == Rep("$", 1)

TokA == Lit(<<"A">>)                    \* a router name the snapshot knows
TokG == Lit(<<"G">>)                    \* the name of the entry guard
TokB == Lit(<<"B">>)                    \* a name the snapshot does not know
TokStar == Lit(<<"*">>)
TokAuto == Lit(<<"A", "u", "t", "o">>)
HexA == Rep("a", IdLen)                 \* fingerprint of router A
HexG == Rep("c", IdLen)                 \* fingerprint of router G
HexU == Rep("b", IdLen)                 \* a fingerprint the snapshot does not know
SigHexU == Cat(Sigil, HexU)             \* the same, with the sigil
NonHex40 == Rep("z", IdLen)             \* 40 characters, not hexadecimal

Tokens == {TokA, TokB, TokStar, TokAuto, HexA, HexU, SigHexU, NonHex40}

LowerChar(c) == CASE c = "A" -> "a" [] c = "U" -> "u" [] c = "T" -> "t"
                  [] c = "O" -> "o" [] OTHER -> c
Lower(s) == Normalise([i \in 1..Len(s) |-> [c |-> LowerChar(s[i].c), n |-> s[i].n]])

(* A hop of a path: a router object of the snapshot (identified by its     *)
(* id_hex) or a string passed through.                                     *)
RouterObj(idhex) == [kind |-> "router", v |-> idhex]
Verbatim(name) == [kind |-> "str", v |-> name]
RA == RouterObj(Cat(Sigil, HexA))
RG == RouterObj(Cat(Sigil, HexG))

Routers0 == (TokA :> RA) @@ (Cat(Sigil, HexA) :> RA)
            @@ (TokG :> RG) @@ (Cat(Sigil, HexG) :> RG)
NoRouters == <<>>                       \* no snapshot is consulted

CircIds == {5, 7}
Reasons == {"", "TIMEOUT"}
RemoteReasons == {"", "RESOURCELIMIT"}

(* Exceptions and Deferred states *)
Err(cls, msg, a, n) == [cls |-> cls, msg |-> msg, arg |-> a, n |-> n, reasons |-> <<>>]
NoErr == Err("", "", <<>>, 0)
Pending == [st |-> "pending", err |-> NoErr]
Unbound == [st |-> "unbound", err |-> NoErr]
Ok == [st |-> "ok", err |-> NoErr]
Failed(e) == [st |-> "err", err |-> e]
Settled(d) == d.st \in {"ok", "err"}

NoNotif == [kind |-> "none", id |-> 0, r |-> "", rr |-> ""]
Notif(k, i, r, rr) == [kind |-> k, id |-> i, r |-> r, rr |-> rr]

----------------------------------------------------------------------------
(* twisted Deferred.callback / errback as the listener uses them: a second *)
(* firing raises AlreadyCalledError and leaves the result alone.           *)
DeferredCallback(d) ==
    IF d.st = "pending" THEN [d |-> Ok, raised |-> FALSE]
    ELSE [d |-> d, raised |-> TRUE]

DeferredErrback(d, e) ==
    IF d.st = "pending" THEN [d |-> Failed(e), raised |-> FALSE]
    ELSE [d |-> d, raised |-> TRUE]

(* _BuiltCircuitListener *)
BuiltCircuitListener(circid) == [circid |-> circid, first |-> TRUE]

circuit_extend(self, n) ==
    IF n.id = self.circid THEN [self EXCEPT !.first = FALSE] ELSE self

circuit_built(self, n, d) ==
    IF n.id = self.circid THEN DeferredCallback(d)
    ELSE [d |-> d, raised |-> FALSE]

circuit_closed(self, n, d) ==
    IF n.id = self.circid THEN DeferredCallback(d)
    ELSE [d |-> d, raised |-> FALSE]

BuildFailedError(r, rr) ==
    [Err("RuntimeError", "failed", <<>>, 0) EXCEPT !.reasons = <<r, rr>>]

(* circuit_failed firing the callback instead of the errback *)
circuit_failed_AsSuccess(self, n, d) ==
    IF n.id = self.circid THEN DeferredCallback(d)
    ELSE [d |-> d, raised |-> FALSE]

circuit_failed(self, n, d) ==
    IF n.id = self.circid THEN DeferredErrback(d, BuildFailedError(n.r, n.rr))
    ELSE [d |-> d, raised |-> FALSE]

(* The listener method a notification is dispatched to. *)
Dispatch(self, n, d) ==
    CASE n.kind = "built" -> circuit_built(self, n, d)
      [] n.kind = "closed" -> circuit_closed(self, n, d)
      [] n.kind = "failed" -> circuit_failed(self, n, d)
      [] OTHER -> [d |-> d, raised |-> FALSE]

----------------------------------------------------------------------------
(* build_circuit.find_router: the set of outcomes of one call *)
RouterNotFound(name) == Err("RuntimeError", "Couldn't find router", name, 0)
IndexError == Err("IndexError", "random.choice", <<>>, 0)

Get(dict, key) == IF key \in DOMAIN dict THEN {dict[key]} ELSE {}

Choice(values) ==
    IF values = {} THEN {[ok |-> FALSE, r |-> Verbatim(<<>>), err |-> IndexError]}
    ELSE {[ok |-> TRUE, r |-> v, err |-> NoErr] : v \in values}

Range(f) == {f[k] : k \in DOMAIN f}

(* find_router without the length test: any unknown name is passed through *)
find_router_PassThrough(position, name) ==
    IF name = TokStar
    THEN IF position = 0 THEN Choice(entry_guards) ELSE Choice(Range(state_routers))
    ELSE LET byName == Get(state_routers, name)
             r == IF byName # {} THEN byName ELSE Get(state_routers, Cat(Sigil, name))
         IN  IF r # {}
             THEN {[ok |-> TRUE, r |-> v, err |-> NoErr] : v \in r}
             ELSE {[ok |-> TRUE, r |-> Verbatim(name), err |-> NoErr]}

find_router(position, name) ==
    IF name = TokStar
    THEN IF position = 0 THEN Choice(entry_guards) ELSE Choice(Range(state_routers))
    ELSE LET byName == Get(state_routers, name)
             r == IF byName # {} THEN byName ELSE Get(state_routers, Cat(Sigil, name))
         IN  IF r # {}
             THEN {[ok |-> TRUE, r |-> v, err |-> NoErr] : v \in r}
             ELSE IF StrLen(name) = IdLen
                  THEN {[ok |-> TRUE, r |-> Verbatim(name), err |-> NoErr]}
                  ELSE {[ok |-> FALSE, r |-> Verbatim(<<>>), err |-> RouterNotFound(name)]}

(* map(find_router, enumerate(routers)): positions in order, the first    *)
(* exception ends the map.                                                 *)
RECURSIVE MapFindRouter(_, _)
MapFindRouter(toks, n) ==
    IF n = 0 THEN {[ok |-> TRUE, hops |-> <<>>, err |-> NoErr]}
    ELSE LET before == MapFindRouter(toks, n - 1)
         IN  {p \in before : ~p.ok}
             \cup UNION {{IF o.ok THEN [ok |-> TRUE, hops |-> Append(p.hops, o.r), err |-> NoErr]
                                  ELSE [ok |-> FALSE, hops |-> <<>>, err |-> o.err]
                           : o \in find_router(n - 1, toks[n])}
                         : p \in {q \in before : q.ok}}

IsAuto(toks) == Len(toks) = 1 /\ Lower(toks[1]) = Lit(<<"a", "u", "t", "o">>)

(* The path handed to state.build_circuit, or the exception raised first. *)
ResolvePath(toks) ==
    IF IsAuto(toks) THEN {[ok |-> TRUE, hops |-> <<>>, err |-> NoErr]}
    ELSE MapFindRouter(toks, Len(toks))

----------------------------------------------------------------------------
Paths == UNION {[1..n -> Tokens] : n \in 1..MaxPath}

IdleCirc ==
    /\ path = <<>> /\ requests = <<>> /\ newId = 0 /\ listeners = <<>>
    /\ cbErrors = 0 /\ notifs = 0 /\ lastNotif = NoNotif /\ resolvedBy = <<>>
    /\ firstTerminal = NoNotif /\ missed = FALSE

IdleAwait ==
    /\ arg = <<>> /\ ncListeners = <<>> /\ waitingOn = 0 /\ whenFired = {}
    /\ created = 0 /\ seen = <<>> /\ resolvedAt = -1

NoCount == [set |-> FALSE, n |-> 0]         \* None
Count(n) == [set |-> TRUE, n |-> n]

IdleEvents ==
    /\ events = <<>> /\ list_events = FALSE /\ once = FALSE /\ show_event = FALSE
    /\ count = NoCount /\ counter = NoCount /\ evListeners = <<>>
    /\ emitted = 0 /\ deliveries = 0 /\ cancelledAt = -1

IdleDelete ==
    /\ delete = <<>> /\ if_unused = FALSE /\ circuits = {} /\ dpc = <<>>
    /\ dres = <<>> /\ closeRequests = <<>> /\ closedSeen = {}

IdleRun ==
    /\ cfg_info = FALSE /\ cfg_debug = FALSE
    /\ tor = Unbound /\ info = Unbound /\ command = Unbound
    /\ codes = 0 /\ stops = 0 /\ exitCode = -1 /\ stdout = <<>>

InitBuild ==
    /\ cmd = "build" /\ pc = "start" /\ result = Pending
    /\ IdleRun
    /\ state_routers = Routers0
    /\ entry_guards \in {{}, {RG}}
    /\ all_done = Unbound
    /\ path \in Paths
    /\ requests = <<>> /\ newId = 0 /\ listeners = <<>>
    /\ cbErrors = 0 /\ notifs = 0 /\ lastNotif = NoNotif /\ resolvedBy = <<>>
    /\ firstTerminal = NoNotif /\ missed = FALSE
    /\ IdleDelete /\ IdleEvents /\ IdleAwait

(* build_circuit up to `yield state.build_circuit(routers)`: the path is   *)
(* resolved and the request handed to the protocol in one run.  The daemon *)
(* numbers the circuit (or rejects the request) when it handles it; the    *)
(* client learns the id from the reply.                                    *)
BuildSubmit ==
    /\ cmd = "build" /\ pc = "start"
    /\ \E o \in ResolvePath(path) :
         IF o.ok
         THEN /\ requests' = Append(requests, [auto |-> IsAuto(path), hops |-> o.hops])
              /\ \E id \in CircIds \cup {0} : newId' = id
              /\ pc' = "awaiting_ack"
              /\ result' = result
         ELSE /\ result' = Failed(o.err)
              /\ pc' = "done"
              /\ UNCHANGED <<requests, newId>>
    /\ UNCHANGED <<cmd, runVars, state_routers, entry_guards, all_done, path, listeners, cbErrors,
                   notifs, lastNotif, resolvedBy, firstTerminal, missed, delVars, evVars, awaitVars>>

(* The reply to the build request arrives: all_done is created and the    *)
(* listener registered, and the coroutine suspends on all_done.            *)
BuildAck ==
    /\ cmd = "build" /\ pc = "awaiting_ack" /\ newId # 0
    /\ all_done' = Pending
    /\ listeners' = Append(listeners, BuiltCircuitListener(newId))
    /\ pc' = "waiting"
    /\ UNCHANGED <<cmd, runVars, result, state_routers, entry_guards, path, requests, newId,
                   cbErrors, notifs, lastNotif, resolvedBy, firstTerminal, missed, delVars, evVars, awaitVars>>

(* The daemon rejects the request: TorProtocolError is caught and logged,  *)
(* and `yield all_done` then reads a local that was never assigned.        *)
UnboundLocalError(name) == Err("UnboundLocalError", name, <<>>, 0)

BuildRejected ==
    /\ cmd = "build" /\ pc = "awaiting_ack" /\ newId = 0
    /\ result' = Failed(UnboundLocalError("all_done"))
    /\ pc' = "done"
    /\ UNCHANGED <<cmd, runVars, state_routers, entry_guards, all_done, circVars, delVars, evVars, awaitVars>>

Terminal(n) == n.kind \in {"built", "closed", "failed"}

(* The state delivers a circuit notification to the registered listener.  *)
(* Firing all_done resumes build_circuit, which then completes.            *)
CircuitNotify(n) ==
    /\ cmd = "build" /\ pc \in {"awaiting_ack", "waiting", "done"}
    /\ requests # <<>>
    /\ notifs < MaxNotifs
    /\ notifs' = notifs + 1
    /\ lastNotif' = n
    /\ IF listeners = <<>>
       THEN /\ missed' = (missed \/ (n.kind \in {"built", "failed"} /\ n.id = newId))
            /\ UNCHANGED <<listeners, all_done, cbErrors, resolvedBy, firstTerminal,
                           result, pc>>
       ELSE LET self == listeners[1]
                out == Dispatch(self, n, all_done)
            IN  /\ listeners' = IF n.kind = "extend"
                                THEN <<circuit_extend(self, n)>> ELSE listeners
                /\ all_done' = out.d
                /\ cbErrors' = IF out.raised THEN cbErrors + 1 ELSE cbErrors
                /\ resolvedBy' = IF out.d # all_done THEN Append(resolvedBy, n)
                                 ELSE resolvedBy
                /\ firstTerminal' = IF firstTerminal = NoNotif /\ Terminal(n)
                                       /\ n.id = self.circid
                                    THEN n ELSE firstTerminal
                /\ IF out.d # all_done
                   THEN result' = out.d /\ pc' = "done"
                   ELSE UNCHANGED <<result, pc>>
                /\ UNCHANGED missed
    /\ UNCHANGED <<cmd, runVars, state_routers, entry_guards, path, requests, newId, delVars, evVars, awaitVars>>

Notify ==
    \E k \in {"extend", "built", "closed", "failed"}, i \in CircIds :
        \/ k # "failed" /\ CircuitNotify(Notif(k, i, "", ""))
        \/ k = "failed" /\ \E r \in Reasons, rr \in RemoteReasons :
                               CircuitNotify(Notif(k, i, r, rr))

NextBuild == BuildSubmit \/ BuildAck \/ BuildRejected \/ Notify

SpecBuild == InitBuild /\ [][NextBuild]_vars

----------------------------------------------------------------------------
(* carml_circ.run with a non-empty `delete`: one delete_circuit coroutine  *)
(* per id, gathered by a DeferredList.                                     *)
NoSuchCircuit(circid) == Err("RuntimeError", "No such circuit", <<>>, circid)
TorProtocolError == Err("TorProtocolError", "", <<>>, 0)

(* `results = yield defer.DeferredList(deletes)` and the loop after it:    *)
(* the list fires when every entry has fired; the first entry that failed, *)
(* in list order, is raised.                                               *)
FirstFailure(ds) ==
    LET bad == {i \in 1..Len(ds) : ds[i].st = "err"}
    IN  CHOOSE i \in bad : \A j \in bad : i <= j

(* A DeferredList with fireOnOneErrback: fires at the first failure *)
Aggregate_FireOnOneErrback(ds) ==
    IF \E i \in 1..Len(ds) : ds[i].st = "err" THEN Failed(ds[FirstFailure(ds)].err)
    ELSE IF \E i \in 1..Len(ds) : ~Settled(ds[i]) THEN Pending
    ELSE Ok

Aggregate(ds) ==
    IF \E i \in 1..Len(ds) : ~Settled(ds[i]) THEN Pending
    ELSE IF \A i \in 1..Len(ds) : ds[i].st = "ok" THEN Ok
    ELSE Failed(ds[FirstFailure(ds)].err)

DeleteLists == UNION {[1..n -> CircIds] : n \in 1..MaxDelete}

(* After run has started every delete_circuit: each is suspended on its   *)
(* own tor.create_state(), run on the DeferredList.                        *)
InitDelete ==
    /\ cmd = "delete" /\ pc = "waiting" /\ result = Pending
    /\ IdleRun
    /\ state_routers = NoRouters /\ entry_guards = {}
    /\ all_done = Unbound
    /\ IdleCirc
    /\ delete \in DeleteLists
    /\ if_unused \in BOOLEAN
    /\ circuits \in SUBSET CircIds
    /\ dpc = [i \in 1..Len(delete) |-> "start"]
    /\ dres = [i \in 1..Len(delete) |-> Pending]
    /\ closeRequests = <<>> /\ closedSeen = {}
    /\ IdleEvents /\ IdleAwait

(* What run does when one of its delete_circuit Deferreds has fired. *)
Gather(ds) ==
    /\ dres' = ds
    /\ result' = Aggregate(ds)
    /\ pc' = IF Settled(Aggregate(ds)) THEN "done" ELSE pc

(* delete_circuit without the lookup in state.circuits: the close request *)
(* is sent whatever the id.                                                *)
DeleteCheck_NoLookup(i) ==
    /\ cmd = "delete" /\ dpc[i] = "start"
    /\ closeRequests' = Append(closeRequests,
                               [circid |-> delete[i], IfUnused |-> if_unused])
    /\ dpc' = [dpc EXCEPT ![i] = "awaiting_ack"]
    /\ UNCHANGED <<dres, result, pc>>
    /\ UNCHANGED <<cmd, runVars, state_routers, entry_guards, all_done, circVars,
                   delete, if_unused, circuits, closedSeen, evVars, awaitVars>>

(* delete_circuit from the return of create_state to                      *)
(* `yield state.close_circuit(circid, **kw)`.                              *)
DeleteCheck(i) ==
    /\ cmd = "delete" /\ dpc[i] = "start"
    /\ IF delete[i] \in circuits
       THEN /\ closeRequests' = Append(closeRequests,
                                       [circid |-> delete[i], IfUnused |-> if_unused])
            /\ dpc' = [dpc EXCEPT ![i] = "awaiting_ack"]
            /\ UNCHANGED <<dres, result, pc>>
       ELSE /\ dpc' = [dpc EXCEPT ![i] = "done"]
            /\ Gather([dres EXCEPT ![i] = Failed(NoSuchCircuit(delete[i]))])
            /\ UNCHANGED closeRequests
    /\ UNCHANGED <<cmd, runVars, state_routers, entry_guards, all_done, circVars,
                   delete, if_unused, circuits, closedSeen, evVars, awaitVars>>

(* delete_circuit returning at the acknowledgement, without              *)
(* `yield circ.when_closed()`                                              *)
CloseAck_NoWait(i) ==
    /\ cmd = "delete" /\ dpc[i] = "awaiting_ack"
    /\ dpc' = [dpc EXCEPT ![i] = "done"]
    /\ Gather([dres EXCEPT ![i] = Ok])
    /\ UNCHANGED <<cmd, runVars, state_routers, entry_guards, all_done, circVars,
                   delete, if_unused, circuits, closeRequests, closedSeen, evVars, awaitVars>>

(* The daemon acknowledges the close request; the coroutine goes on to    *)
(* `yield circ.when_closed()`, which has fired already if the circuit's    *)
(* CLOSED came first.                                                      *)
CloseAck(i) ==
    /\ cmd = "delete" /\ dpc[i] = "awaiting_ack"
    /\ IF delete[i] \in closedSeen
       THEN /\ dpc' = [dpc EXCEPT ![i] = "done"]
            /\ Gather([dres EXCEPT ![i] = Ok])
       ELSE /\ dpc' = [dpc EXCEPT ![i] = "awaiting_closed"]
            /\ UNCHANGED <<dres, result, pc>>
    /\ UNCHANGED <<cmd, runVars, state_routers, entry_guards, all_done, circVars,
                   delete, if_unused, circuits, closeRequests, closedSeen, evVars, awaitVars>>

(* The daemon answers the close request with an error. *)
CloseRejected(i) ==
    /\ cmd = "delete" /\ dpc[i] = "awaiting_ack"
    /\ dpc' = [dpc EXCEPT ![i] = "done"]
    /\ Gather([dres EXCEPT ![i] = Failed(TorProtocolError)])
    /\ UNCHANGED <<cmd, runVars, state_routers, entry_guards, all_done, circVars,
                   delete, if_unused, circuits, closeRequests, closedSeen, evVars, awaitVars>>

(* CLOSED for circuit c is delivered: the snapshot drops the circuit and   *)
(* every when_closed() Deferred of it fires.                               *)
CircuitClosed(c) ==
    /\ cmd = "delete" /\ c \in circuits
    /\ circuits' = circuits \ {c}
    /\ closedSeen' = closedSeen \cup {c}
    /\ LET woken == {i \in 1..Len(delete) : delete[i] = c /\ dpc[i] = "awaiting_closed"}
       IN  /\ dpc' = [i \in 1..Len(delete) |-> IF i \in woken THEN "done" ELSE dpc[i]]
           /\ Gather([i \in 1..Len(delete) |-> IF i \in woken THEN Ok ELSE dres[i]])
    /\ UNCHANGED <<cmd, runVars, state_routers, entry_guards, all_done, circVars,
                   delete, if_unused, closeRequests, evVars, awaitVars>>

DeleteChecks == \E i \in 1..Len(delete) : DeleteCheck(i)
CloseAcks == \E i \in 1..Len(delete) : CloseAck(i)
CloseRejections == \E i \in 1..Len(delete) : CloseRejected(i)
ClosedNotify == \E c \in CircIds : CircuitClosed(c)

NextDelete == DeleteChecks \/ CloseAcks \/ CloseRejections \/ ClosedNotify

SpecDelete == InitDelete /\ [][NextDelete]_vars

(* The daemon answers every close request, with an acknowledgement or an  *)
(* error, and the reactor then resumes the coroutine waiting for it.       *)
CloseAnswered(i) == i \in DOMAIN dpc /\ (CloseAck(i) \/ CloseRejected(i))

(* The daemon delivers CLOSED for a circuit it was asked to close. *)
ClosedAfterRequest(c) ==
    /\ \E k \in 1..Len(closeRequests) : closeRequests[k].circid = c
    /\ CircuitClosed(c)

FairDelete ==
    /\ \A i \in 1..MaxDelete : WF_vars(CloseAnswered(i))
    /\ \A c \in CircIds : WF_vars(ClosedAfterRequest(c))

SpecDeleteLive == SpecDelete /\ FairDelete

----------------------------------------------------------------------------
(* carml_events.run *)
EvCIRC == Lit(<<"C", "I", "R", "C">>)
EvSTREAM == Lit(<<"S", "T", "R", "E", "A", "M">>)
(* tor.protocol.get_info('events/names'): one string, names separated by   *)
(* spaces.                                                                 *)
SupportedEvents == {EvCIRC, EvSTREAM}
all_events == Cat(EvCIRC, Cat(Rep(" ", 1), EvSTREAM))

EventNames == {Lit(<<"c", "i", "r", "c">>), EvSTREAM, Lit(<<"B", "O", "G", "U", "S">>),
               Lit(<<"I", "R", "C">>), <<>>}

UpperChar(c) == CASE c = "c" -> "C" [] c = "i" -> "I" [] c = "r" -> "R" [] OTHER -> c
Upper(s) == Normalise([i \in 1..Len(s) |-> [c |-> UpperChar(s[i].c), n |-> s[i].n]])

(* `e in all_events` with all_events a str: substring search *)
InStr(e, s) ==
    LET ec == ToChars(e)
        sc == ToChars(s)
    IN  \E i \in 0..(Len(sc) - Len(ec)) : SubSeq(sc, i + 1, i + Len(ec)) = ec

(* The loop `for e in events`: the listeners registered, in order, up to   *)
(* the first name the check turns down, where run returns.                 *)
RECURSIVE RegisterLoop(_, _, _)
RegisterLoop(evs, show, done) ==
    IF evs = <<>> THEN [listeners |-> done, invalid |-> FALSE]
    ELSE LET e == Upper(Head(evs))
         IN  IF ~InStr(e, all_events)
             THEN [listeners |-> done, invalid |-> TRUE]
             ELSE RegisterLoop(Tail(evs), show,
                               Append(done, [event |-> e,
                                             evt |-> IF show THEN e ELSE <<>>]))

(* _got_event printing nothing when there is no count *)
got_event_SilentWithoutCount(c) ==
    IF c.set
    THEN IF c.n - 1 >= 0
         THEN [counter |-> Count(c.n - 1), printed |-> TRUE, raised |-> FALSE]
         ELSE [counter |-> Count(c.n - 1), printed |-> FALSE, raised |-> TRUE]
    ELSE [counter |-> c, printed |-> FALSE, raised |-> FALSE]

(* _got_event printing only while the counter stays positive *)
got_event_OffByOne(c) ==
    IF c.set
    THEN IF c.n - 1 > 0
         THEN [counter |-> Count(c.n - 1), printed |-> TRUE, raised |-> FALSE]
         ELSE [counter |-> Count(c.n - 1), printed |-> FALSE, raised |-> TRUE]
    ELSE [counter |-> c, printed |-> TRUE, raised |-> FALSE]

(* One call of _got_event.  all_done is assigned in the function body, so  *)
(* it is a local of _got_event: reading it in `elif all_done` raises       *)
(* UnboundLocalError.                                                      *)
got_event(c) ==
    IF c.set
    THEN IF c.n - 1 >= 0
         THEN [counter |-> Count(c.n - 1), printed |-> TRUE, raised |-> FALSE]
         ELSE [counter |-> Count(c.n - 1), printed |-> FALSE, raised |-> TRUE]
    ELSE [counter |-> c, printed |-> TRUE, raised |-> FALSE]

(* The protocol calls the k listeners of an event in order; an exception   *)
(* ends the round.                                                         *)
RECURSIVE FireListeners(_, _)
FireListeners(k, st) ==
    IF k = 0 \/ st.raised THEN st
    ELSE LET o == got_event(st.counter)
         IN  FireListeners(k - 1,
                 [counter |-> o.counter,
                  emitted |-> IF o.printed THEN st.emitted + 1 ELSE st.emitted,
                  deliveries |-> st.deliveries + 1,
                  raised |-> o.raised])

EventLists == UNION {[1..n -> EventNames] : n \in 1..MaxEvents}

InitEvents ==
    /\ cmd = "events" /\ pc = "start" /\ result = Pending
    /\ IdleRun
    /\ state_routers = NoRouters /\ entry_guards = {}
    /\ all_done = Unbound
    /\ IdleCirc /\ IdleDelete
    /\ events \in EventLists
    /\ list_events \in BOOLEAN
    /\ once \in BOOLEAN
    /\ show_event \in BOOLEAN
    /\ count \in {NoCount} \cup {Count(n) : n \in -1..MaxCount}
    /\ counter = NoCount /\ evListeners = <<>>
    /\ emitted = 0 /\ deliveries = 0 /\ cancelledAt = -1
    /\ IdleAwait

(* run from the return of get_info to `return` or `yield all_done` *)
EventsStart ==
    /\ cmd = "events" /\ pc = "start"
    /\ IF list_events
       THEN /\ result' = Ok /\ pc' = "done"
            /\ UNCHANGED <<all_done, counter, evListeners>>
       ELSE LET loop == RegisterLoop(events, show_event, <<>>)
            IN  /\ all_done' = Pending
                /\ counter' = IF once THEN Count(1) ELSE count
                /\ evListeners' = loop.listeners
                /\ IF loop.invalid
                   THEN result' = Ok /\ pc' = "done"
                   ELSE result' = result /\ pc' = "waiting"
    /\ UNCHANGED <<cmd, runVars, state_routers, entry_guards, circVars, delVars,
                   events, list_events, once, show_event, count, emitted, deliveries,
                   cancelledAt, awaitVars>>

(* The daemon sends an event of class e; the protocol calls its listeners. *)
EventDeliver(e) ==
    /\ cmd = "events" /\ pc # "start"
    /\ LET k == Cardinality({i \in 1..Len(evListeners) : evListeners[i].event = e})
           st == FireListeners(k, [counter |-> counter, emitted |-> emitted,
                                   deliveries |-> deliveries, raised |-> FALSE])
       IN  /\ k > 0
           /\ deliveries + k <= MaxDeliveries
           /\ counter' = st.counter
           /\ emitted' = st.emitted
           /\ deliveries' = st.deliveries
           /\ cbErrors' = IF st.raised THEN cbErrors + 1 ELSE cbErrors
    /\ UNCHANGED <<cmd, runVars, pc, result, state_routers, entry_guards, all_done, delVars,
                   path, requests, newId, listeners, notifs, lastNotif, resolvedBy,
                   firstTerminal, missed,
                   events, list_events, once, show_event, count, evListeners,
                   cancelledAt, awaitVars>>

EventNotify == \E e \in SupportedEvents : EventDeliver(e)

CancelledError == Err("CancelledError", "", <<>>, 0)

(* run is cancelled from outside while it is suspended on `yield all_done` *)
(* (Deferred.cancel() on the Deferred it returned): CancelledError is      *)
(* raised at the yield.  run has no handler and no cleanup there, and      *)
(* nothing in it calls remove_event_listener: it fails with the error and  *)
(* its listeners stay with tor.protocol.  Whether all_done itself is       *)
(* cancelled depends on the Twisted release.  Cancelling a Deferred that   *)
(* has fired does nothing.                                                 *)
EventsCancel ==
    /\ cmd = "events" /\ pc = "waiting"
    /\ result' = Failed(CancelledError)
    /\ pc' = "done"
    /\ all_done' \in {all_done, Failed(CancelledError)}
    /\ cancelledAt' = deliveries
    /\ UNCHANGED <<cmd, runVars, state_routers, entry_guards, circVars, delVars,
                   events, list_events, once, show_event, count, counter, evListeners,
                   emitted, deliveries, awaitVars>>

NextEvents == EventsStart \/ EventNotify \/ EventsCancel

SpecEvents == InitEvents /\ [][NextEvents]_vars

----------------------------------------------------------------------------
(* carml_relay.router_await, _await_router, _when_updated *)
NotId41 == Rep("z", IdLen + 1)          \* 41 characters without the sigil
RX == RouterObj(SigHexU)                \* the awaited router: name B, id $bbb...
RoutersWithX == Routers0 @@ (TokB :> RX) @@ (SigHexU :> RX)

AwaitArgs == {HexU, SigHexU, TokB, NotId41}

StartsWith(s, c) == s # <<>> /\ s[1].c = c

(* router_await, lines 98-99 *)
NormalizeId(a) ==
    IF StrLen(a) = IdLen /\ ~StartsWith(a, "$") THEN Cat(Sigil, a) ELSE a

(* router_await, lines 100-102 *)
NotAnId(a) == ~StartsWith(a, "$") /\ StrLen(a) = IdLen + 1

RemoveListener(ls, l) ==
    IF \E i \in 1..Len(ls) : ls[i] = l
    THEN LET i == CHOOSE j \in 1..Len(ls) : ls[j] = l /\ \A k \in 1..(j - 1) : ls[k] # l
         IN  SubSeq(ls, 1, i - 1) \o SubSeq(ls, i + 1, Len(ls))
    ELSE ls

(* _when_updated: a new Deferred and its _newconsensus listener, which is  *)
(* added to NEWCONSENSUS; _await_router suspends on the Deferred.          *)
when_updated(st) ==
    [st EXCEPT !.created = st.created + 1,
               !.ls = Append(st.ls, st.created + 1),
               !.waitingOn = st.created + 1]

(* _await_router returning at the first refresh without the lookup *)
await_router_NoLookup(st, routers, a, n) ==
    [st EXCEPT !.pc = "done", !.result = Ok, !.resolvedAt = n, !.waitingOn = 0]

(* _await_router resumed by its Deferred: one turn of `while True`, over   *)
(* the snapshot `routers` after n refreshes.                               *)
await_router(st, routers, a, n) ==
    IF a \in DOMAIN routers
    THEN [st EXCEPT !.pc = "done", !.result = Ok, !.resolvedAt = n, !.waitingOn = 0]
    ELSE when_updated(st)

(* _newconsensus without remove_event_listener: a persistent listener *)
newconsensus_NoRemove(l, st, routers, a, n) ==
    IF l \in st.fired
    THEN [st EXCEPT !.errs = st.errs + 1]
    ELSE LET st1 == [st EXCEPT !.fired = st.fired \cup {l}]
         IN  IF st1.pc = "waiting" /\ st1.waitingOn = l
             THEN await_router(st1, routers, a, n) ELSE st1

(* _newconsensus of listener l: fire its Deferred (which resumes the      *)
(* coroutine suspended on it), then remove the listener.                   *)
newconsensus(l, st, routers, a, n) ==
    IF l \in st.fired
    THEN [st EXCEPT !.errs = st.errs + 1]
    ELSE LET st1 == [st EXCEPT !.fired = st.fired \cup {l}]
             st2 == IF st1.pc = "waiting" /\ st1.waitingOn = l
                    THEN await_router(st1, routers, a, n) ELSE st1
         IN  [st2 EXCEPT !.ls = RemoveListener(st2.ls, l)]

(* The protocol calls the listeners that were registered when the event   *)
(* arrived, in order.                                                      *)
RECURSIVE FireNewConsensus(_, _, _, _, _)
FireNewConsensus(ls, st, routers, a, n) ==
    IF ls = <<>> THEN st
    ELSE FireNewConsensus(Tail(ls), newconsensus(Head(ls), st, routers, a, n),
                          routers, a, n)

InitAwait ==
    /\ cmd = "await" /\ pc = "start" /\ result = Pending
    /\ IdleRun
    /\ entry_guards = {}
    /\ all_done = Unbound
    /\ IdleCirc /\ IdleDelete /\ IdleEvents
    /\ arg \in AwaitArgs
    /\ \E present \in BOOLEAN :
         /\ state_routers = IF present THEN RoutersWithX ELSE Routers0
         /\ seen = <<present>>
    /\ ncListeners = <<>> /\ waitingOn = 0 /\ whenFired = {} /\ created = 0
    /\ resolvedAt = -1

(* router_await up to its first suspension.  (_print_router_info only     *)
(* prints the router it is given.)                                         *)
AwaitStart ==
    /\ cmd = "await" /\ pc = "start"
    /\ LET a == NormalizeId(arg)
       IN  IF NotAnId(a)
           THEN /\ result' = Ok /\ pc' = "done"
                /\ UNCHANGED <<ncListeners, waitingOn, created, resolvedAt>>
           ELSE IF a \in DOMAIN state_routers
           THEN /\ result' = Ok /\ pc' = "done" /\ resolvedAt' = 0
                /\ UNCHANGED <<ncListeners, waitingOn, created>>
           ELSE LET st == when_updated([ls |-> ncListeners, waitingOn |-> waitingOn,
                                        created |-> created])
                IN  /\ ncListeners' = st.ls
                    /\ waitingOn' = st.waitingOn
                    /\ created' = st.created
                    /\ pc' = "waiting"
                    /\ UNCHANGED <<result, resolvedAt>>
    /\ UNCHANGED <<cmd, runVars, state_routers, entry_guards, all_done, circVars, delVars, evVars,
                   arg, whenFired, seen>>

(* The snapshot is refreshed and NEWCONSENSUS delivered. *)
NewConsensus(present) ==
    /\ cmd = "await" /\ pc # "start"
    /\ Len(seen) - 1 < MaxRefresh
    /\ state_routers' = IF present THEN RoutersWithX ELSE Routers0
    /\ seen' = Append(seen, present)
    /\ LET st == FireNewConsensus(ncListeners,
                     [ls |-> ncListeners, waitingOn |-> waitingOn, fired |-> whenFired,
                      created |-> created, pc |-> pc, result |-> result,
                      resolvedAt |-> resolvedAt, errs |-> cbErrors],
                     state_routers', NormalizeId(arg), Len(seen))
       IN  /\ ncListeners' = st.ls
           /\ waitingOn' = st.waitingOn
           /\ whenFired' = st.fired
           /\ created' = st.created
           /\ pc' = st.pc
           /\ result' = st.result
           /\ resolvedAt' = st.resolvedAt
           /\ cbErrors' = st.errs
    /\ UNCHANGED <<cmd, runVars, entry_guards, all_done, delVars, evVars, arg,
                   path, requests, newId, listeners, notifs, lastNotif, resolvedBy,
                   firstTerminal, missed>>

Refresh == \E present \in BOOLEAN : NewConsensus(present)

NextAwait == AwaitStart \/ Refresh

SpecAwait == InitAwait /\ [][NextAwait]_vars

----------------------------------------------------------------------------
(* cli._run_command: _startup connects, prints the version with --info,   *)
(* and runs the command; `result` is the Deferred d of _startup.  The      *)
(* command is whatever callable the caller passed: it returns a value,     *)
(* raises, or returns a Deferred that fires later or never.                *)
EndpointError == Err("ValueError", "clientFromString", <<>>, 0)
ConnectionRefusedError == Err("ConnectionRefusedError", "", <<>>, 0)

(* The failures the commands above end with *)
CommandErrors ==
    {TorProtocolError, UnboundLocalError("all_done"), RouterNotFound(TokB),
     IndexError, CancelledError}
    \cup {NoSuchCircuit(c) : c \in CircIds}
    \cup {BuildFailedError(r, rr) : r \in Reasons, rr \in RemoteReasons}

CommandOutcomes == {Pending, Ok} \cup {Failed(e) : e \in CommandErrors}

(* _the_bad_stuff leaving codes[0] alone *)
the_bad_stuff_KeepCode(f, debug, c, o) ==
    [codes |-> c,
     out |-> o \o <<"Error">> \o (IF debug THEN <<"Traceback">> ELSE <<>>)]

(* _the_bad_stuff(f): prints the error, the traceback with --debug, and    *)
(* sets codes[0] = 1.                                                      *)
the_bad_stuff(f, debug, c, o) ==
    [codes |-> 1,
     out |-> o \o <<"Error">> \o (IF debug THEN <<"Traceback">> ELSE <<>>)]

(* d fires with `outcome`: its callbacks run at once, the errback          *)
(* _the_bad_stuff on a failure and then `lambda _: reactor.stop()`.        *)
Settle(outcome, o) ==
    /\ result' = outcome
    /\ LET h == IF outcome.st = "err"
                THEN the_bad_stuff(outcome.err, cfg_debug, codes, o)
                ELSE [codes |-> codes, out |-> o]
       IN  codes' = h.codes /\ stdout' = h.out
    /\ stops' = stops + 1
    /\ pc' = "stopping"

(* `yield defer.maybeDeferred(cmd, reactor, cfg, tor, ...)`: the command   *)
(* has settled already, or _startup suspends on its Deferred.              *)
StartCommand(c, o) ==
    /\ command' = c
    /\ IF Settled(c) THEN Settle(c, o)
       ELSE /\ pc' = "command" /\ stdout' = o
            /\ UNCHANGED <<result, codes, stops>>

InitRun ==
    /\ cmd = "run" /\ pc = "go" /\ result = Pending
    /\ state_routers = NoRouters /\ entry_guards = {}
    /\ all_done = Unbound
    /\ IdleCirc /\ IdleDelete /\ IdleEvents /\ IdleAwait
    /\ cfg_info \in BOOLEAN /\ cfg_debug \in BOOLEAN
    /\ tor = Unbound /\ info = Unbound /\ command = Unbound
    /\ codes = 0 /\ stops = 0 /\ exitCode = -1 /\ stdout = <<>>

(* _go, called when the reactor runs: _startup up to                       *)
(* `yield txtorcon.connect(reactor, ep)`, then the callbacks are added.    *)
RunGo ==
    /\ cmd = "run" /\ pc = "go"
    /\ \/ /\ tor' = Pending /\ pc' = "connecting"
          /\ UNCHANGED <<result, codes, stops, stdout>>
       \/ /\ tor' = Failed(EndpointError)
          /\ Settle(Failed(EndpointError), stdout)
    /\ UNCHANGED <<cmd, state_routers, entry_guards, all_done, circVars, delVars, evVars,
                   awaitVars, cfg_info, cfg_debug, info, command, exitCode>>

(* txtorcon.connect has fired: _startup goes on to the version query or    *)
(* to the command.                                                         *)
ConnectDone(t) ==
    /\ cmd = "run" /\ pc = "connecting"
    /\ tor' = t
    /\ IF t.st = "err"
       THEN Settle(t, stdout) /\ UNCHANGED <<info, command>>
       ELSE IF cfg_info
       THEN /\ info' = Pending /\ pc' = "info"
            /\ UNCHANGED <<result, codes, stops, stdout, command>>
       ELSE /\ \E c \in CommandOutcomes : StartCommand(c, stdout)
            /\ UNCHANGED info
    /\ UNCHANGED <<cmd, state_routers, entry_guards, all_done, circVars, delVars, evVars,
                   awaitVars, cfg_info, cfg_debug, exitCode>>

(* get_info has fired: the version is printed and the command run. *)
InfoDone(i) ==
    /\ cmd = "run" /\ pc = "info"
    /\ info' = i
    /\ IF i.st = "err"
       THEN Settle(i, stdout) /\ UNCHANGED command
       ELSE \E c \in CommandOutcomes : StartCommand(c, Append(stdout, "Connected"))
    /\ UNCHANGED <<cmd, state_routers, entry_guards, all_done, circVars, delVars, evVars,
                   awaitVars, cfg_info, cfg_debug, tor, exitCode>>

(* The command's Deferred fires. *)
CommandSettles(c) ==
    /\ cmd = "run" /\ pc = "command"
    /\ command' = c
    /\ Settle(c, stdout)
    /\ UNCHANGED <<cmd, state_routers, entry_guards, all_done, circVars, delVars, evVars,
                   awaitVars, cfg_info, cfg_debug, tor, info, exitCode>>

(* reactor.run() returns after the stop; sys.exit(codes[0]). *)
ReactorStopped ==
    /\ cmd = "run" /\ pc = "stopping"
    /\ exitCode' = codes
    /\ pc' = "exited"
    /\ UNCHANGED <<cmd, result, state_routers, entry_guards, all_done, circVars, delVars,
                   evVars, awaitVars, cfg_info, cfg_debug, tor, info, command, codes,
                   stops, stdout>>

Connected == \E t \in {Ok, Failed(ConnectionRefusedError)} : ConnectDone(t)
InfoAnswered == \E i \in {Ok, Failed(TorProtocolError)} : InfoDone(i)
CommandDone == \E c \in CommandOutcomes \ {Pending} : CommandSettles(c)

NextRun == RunGo \/ Connected \/ InfoAnswered \/ CommandDone \/ ReactorStopped

SpecRun == InitRun /\ [][NextRun]_vars

----------------------------------------------------------------------------
(* Any of the commands *)
Init == InitBuild \/ InitDelete \/ InitEvents \/ InitAwait \/ InitRun
Next == NextBuild \/ NextDelete \/ NextEvents \/ NextAwait \/ NextRun
Spec == Init /\ [][Next]_vars

----------------------------------------------------------------------------
(* Properties *)

(* C1: the completion signal of a build tracking circuit i resolves at    *)
(* most once, and only in response to a built or failed notification      *)
(* whose circuit id is i; closed, extend and notifications for other ids   *)
(* never resolve it.                                                       *)
C1_ResolvedOnlyByBuiltOrFailed ==
    /\ Len(resolvedBy) <= 1
    /\ \A k \in 1..Len(resolvedBy) :
         resolvedBy[k].kind \in {"built", "failed"} /\ resolvedBy[k].id = newId

(* C2: once the build's completion signal has resolved, a later built,    *)
(* closed or failed notification for the tracked id raises no error and    *)
(* changes neither the outcome nor any other state of the operation.       *)
C2_NoOpAfterResolved ==
    [][(/\ cmd = "build" /\ Settled(all_done) /\ listeners # <<>>
        /\ notifs' = notifs + 1
        /\ Terminal(lastNotif') /\ lastNotif'.id = listeners[1].circid)
       => (/\ cbErrors' = cbErrors /\ all_done' = all_done
           /\ result' = result /\ listeners' = listeners)]_vars

(* C3: no built or failed notification for the new circuit is delivered   *)
(* after the build request was submitted while no listener for that        *)
(* circuit is registered.                                                  *)
C3_NoTerminalWithoutListener == ~missed

(* C4: with several deletions in one run, the aggregate settles only      *)
(* after every deletion has settled (and then at once), succeeds exactly   *)
(* if all succeeded, and otherwise fails with the first failure in list    *)
(* order; a deletion fails only on its own account (its id is unknown or   *)
(* its own close request was refused), and one that succeeded has sent     *)
(* its close request and seen its own CLOSED.                              *)
C4_AggregateAfterAllSettle ==
    cmd = "delete" =>
      LET n == Len(delete)
          allSettled == \A i \in 1..n : Settled(dres[i])
      IN  /\ Settled(result) <=> allSettled
          /\ result.st = "ok" <=> \A i \in 1..n : dres[i].st = "ok"
          /\ result.st = "err" =>
               \E i \in 1..n : /\ dres[i].st = "err"
                               /\ \A j \in 1..(i - 1) : dres[j].st = "ok"
                               /\ result.err = dres[i].err
          /\ \A i \in 1..n :
               /\ dres[i].st = "err" =>
                    \/ dres[i].err = NoSuchCircuit(delete[i])
                    \/ /\ dres[i].err = TorProtocolError
                       /\ \E k \in 1..Len(closeRequests) :
                            closeRequests[k].circid = delete[i]
               /\ dres[i].st = "ok" =>
                    /\ delete[i] \in closedSeen
                    /\ \E k \in 1..Len(closeRequests) :
                         closeRequests[k].circid = delete[i]

(* C4 witness: delete [5, 7] with 7 unknown: the run has failed with 7's  *)
(* error while 5 sent its close request and resolved on its CLOSED.        *)
C4_Witness ==
    /\ cmd = "delete" /\ delete = <<5, 7>>
    /\ dres[1] = Ok /\ dres[2] = Failed(NoSuchCircuit(7))
    /\ result = Failed(NoSuchCircuit(7))
    /\ 5 \in closedSeen /\ Len(closeRequests) = 1

(* C5: when a requested event name is not supported, no event listener at *)
(* all is registered: in particular, when run turns a name down, the       *)
(* supported names before it in the list are not registered either.        *)
C5_NoPartialRegistration ==
    (/\ cmd = "events" /\ pc # "start"
     /\ \E i \in 1..Len(events) :
          /\ Upper(events[i]) \notin SupportedEvents
          /\ ~InStr(Upper(events[i]), all_events)
          /\ \A j \in 1..(i - 1) : Upper(events[j]) \in SupportedEvents)
    => evListeners = <<>>

(* The counted policy of a run: once means 1, otherwise --count. *)
Policy == IF once THEN Count(1) ELSE count
Min(a, b) == IF a <= b THEN a ELSE b

(* C6: with counted policy N (N >= 0) the number of payloads emitted       *)
(* equals min(number of deliveries, N), over all subscribed event classes. *)
C6_EmittedIsMin ==
    (cmd = "events" /\ Policy.set /\ Policy.n >= 0)
    => emitted = Min(deliveries, Policy.n)

(* C6 witness: N = 2, two event classes subscribed, four deliveries. *)
C6_Witness ==
    /\ cmd = "events" /\ ~once /\ count = Count(2)
    /\ Len(evListeners) = 2 /\ evListeners[1].event # evListeners[2].event
    /\ deliveries = 4 /\ emitted = 2

(* C7: with counted policy N >= 1 the completion signal has resolved      *)
(* successfully once N deliveries have been made, and no delivery raises   *)
(* an error.                                                               *)
C7_ResolvedWhenExhausted ==
    (/\ cmd = "events" /\ pc = "waiting" /\ Policy.set /\ Policy.n >= 1)
    => /\ deliveries >= Policy.n => all_done = Ok /\ result = Ok
       /\ cbErrors = 0

(* First position of seen at which the router was in the snapshot *)
FirstSeen == CHOOSE k \in 1..Len(seen) : seen[k] /\ \A j \in 1..(k - 1) : ~seen[j]

(* C8: router_await for a router id resolves exactly at the first refresh *)
(* at which the router is in the snapshot (or at once, if it is there at   *)
(* the start): not earlier, not later, and without any callback failing.   *)
C8_ResolvesAtFirstPresence ==
    (cmd = "await" /\ pc # "start" /\ ~NotAnId(NormalizeId(arg))) =>
      /\ result.st # "err"
      /\ cbErrors = 0
      /\ result = Ok <=> \E k \in 1..Len(seen) : seen[k]
      /\ result = Ok => resolvedAt = FirstSeen - 1
      /\ result = Pending => resolvedAt = -1 /\ pc = "waiting"

(* C8 witness: absent at the start and at three refreshes, present at the *)
(* fourth; resolved at the fourth, four one-shot Deferreds fired.          *)
C8_Witness ==
    /\ cmd = "await" /\ seen = <<FALSE, FALSE, FALSE, FALSE, TRUE>>
    /\ result = Ok /\ resolvedAt = 4 /\ Cardinality(whenFired) = 4

(* C9: with the listener registered for circuit i, if the first terminal  *)
(* notification it gets for i is built the build completes with success;   *)
(* if it is failed the build completes with a failure carrying that        *)
(* notification's reason and remote_reason.                                *)
C9_OutcomeMapping ==
    cmd = "build" =>
      /\ firstTerminal.kind = "built" => all_done = Ok /\ result = Ok
      /\ firstTerminal.kind = "failed" =>
           /\ all_done = Failed(BuildFailedError(firstTerminal.r, firstTerminal.rr))
           /\ result = all_done

(* C9 witness: a failed notification with both reasons was the first      *)
(* terminal notification, and the build has failed.                        *)
C9_Witness ==
    /\ cmd = "build" /\ firstTerminal.kind = "failed"
    /\ firstTerminal.r = "TIMEOUT" /\ firstTerminal.rr = "RESOURCELIMIT"
    /\ result.st = "err" /\ result.err.reasons = <<"TIMEOUT", "RESOURCELIMIT">>

(* A token no rule of the resolver accepts *)
Unresolvable(name) ==
    /\ name # TokStar
    /\ name \notin DOMAIN state_routers
    /\ Cat(Sigil, name) \notin DOMAIN state_routers
    /\ StrLen(name) # IdLen

FirstUnresolvable ==
    CHOOSE p \in 1..Len(path) :
        Unresolvable(path[p]) /\ \A q \in 1..(p - 1) : ~Unresolvable(path[q])

(* C10: a build whose path holds a token that cannot be resolved fails    *)
(* with the router-not-found error naming such a token, submits no build   *)
(* request and registers no listener.                                      *)
C10_FailsNamingUnresolvedToken ==
    (/\ cmd = "build" /\ pc # "start" /\ ~IsAuto(path)
     /\ \E p \in 1..Len(path) : Unresolvable(path[p]))
    => /\ \E p \in 1..Len(path) : result = Failed(RouterNotFound(path[p]))
       /\ requests = <<>> /\ listeners = <<>>

(* What does hold of such a build: it fails, submits no build request and *)
(* registers no listener, and the failure is the router-not-found error    *)
(* naming the first unresolvable token unless the wildcard at position 0   *)
(* had no entry guard to choose from.                                      *)
UnresolvedTokenAborts ==
    (/\ cmd = "build" /\ pc # "start" /\ ~IsAuto(path)
     /\ \E p \in 1..Len(path) : Unresolvable(path[p]))
    => /\ result.st = "err"
       /\ requests = <<>> /\ listeners = <<>> /\ newId = 0
       /\ ~(path[1] = TokStar /\ entry_guards = {})
            => result.err = RouterNotFound(path[FirstUnresolvable])

(* Path ["A", "B"] with A known and B unknown has failed naming B. *)
UnresolvedTokenWitness ==
    /\ cmd = "build" /\ path = <<TokA, TokB>>
    /\ result = Failed(RouterNotFound(TokB)) /\ requests = <<>>

(* C11: a delete_circuit whose id is not in state.circuits when it looks  *)
(* it up fails in that same step with the no-such-circuit error and sends  *)
(* no close request, whatever if_unused is; no close request is ever sent  *)
(* for an id the snapshot never held.                                      *)
C11_UnknownIdFailsAtOnce ==
    /\ [](cmd = "delete" =>
            \A k \in 1..Len(closeRequests) :
                closeRequests[k].circid \in circuits \cup closedSeen)
    /\ [][\A i \in 1..Len(delete) :
            (/\ cmd = "delete" /\ dpc[i] = "start" /\ dpc'[i] # "start"
             /\ delete[i] \notin circuits)
            => (/\ dres'[i] = Failed(NoSuchCircuit(delete[i]))
                /\ dpc'[i] = "done"
                /\ closeRequests' = closeRequests)]_vars

(* C11 witness: delete [7] with if_unused set and 7 never in the snapshot *)
(* has failed with the no-such-circuit error, no close request sent.       *)
C11_Witness ==
    /\ cmd = "delete" /\ if_unused /\ delete = <<7>>
    /\ 7 \notin circuits \cup closedSeen
    /\ dres = <<Failed(NoSuchCircuit(7))>> /\ result = Failed(NoSuchCircuit(7))
    /\ closeRequests = <<>>

(* C12: a delete_circuit never resolves successfully before CLOSED for    *)
(* its id has been delivered; and once its close request is sent, if the   *)
(* daemon answers it and delivers CLOSED for the id (before or after the   *)
(* answer), the deletion eventually resolves successfully, unless the      *)
(* answer was an error.                                                    *)
C12_SuccessOnlyAfterClosed ==
    /\ [](cmd = "delete" =>
            \A i \in 1..Len(delete) : dres[i] = Ok => delete[i] \in closedSeen)
    /\ \A i \in 1..MaxDelete :
         (cmd = "delete" /\ i \in DOMAIN dpc /\ dpc[i] = "awaiting_ack")
         ~> (i \in DOMAIN dres /\ dres[i] \in {Ok, Failed(TorProtocolError)})
    /\ \A i \in 1..MaxDelete :
         (cmd = "delete" /\ i \in DOMAIN dpc /\ dpc[i] = "awaiting_closed")
         ~> (i \in DOMAIN dres /\ dres[i] = Ok)

(* C12 witness: delete [5, 5]: both coroutines sent their close request,  *)
(* CLOSED for 5 was delivered and both have resolved successfully.         *)
C12_Witness ==
    /\ cmd = "delete" /\ delete = <<5, 5>>
    /\ Len(closeRequests) = 2 /\ 5 \in closedSeen
    /\ dres = <<Ok, Ok>> /\ result = Ok

(* Hexadecimal fingerprints, as the claims about the resolver mean them *)
HexDigits == {"0", "1", "2", "3", "4", "5", "6", "7", "8", "9",
              "a", "b", "c", "d", "e", "f", "A", "B", "C", "D", "E", "F"}
IsHex40(name) ==
    StrLen(name) = IdLen /\ \A k \in 1..Len(name) : name[k].c \in HexDigits
DropFirst(name) ==
    IF name[1].n = 1 THEN Tail(name)
    ELSE <<[c |-> name[1].c, n |-> name[1].n - 1]>> \o Tail(name)
IsFingerprint(name) ==
    \/ IsHex40(name)
    \/ StartsWith(name, "$") /\ IsHex40(DropFirst(name))

(* The snapshot has the token, by name or by sigil-prefixed name *)
Known(name) ==
    name \in DOMAIN state_routers \/ Cat(Sigil, name) \in DOMAIN state_routers

(* C13: a build whose first token unknown to the snapshot is neither the  *)
(* wildcard nor a hex fingerprint (a 40-character token that is not        *)
(* hexadecimal included) fails with the router-not-found error naming that *)
(* token, and nothing is submitted.                                        *)
C13_UnknownNonHexFails ==
    (cmd = "build" /\ pc # "start" /\ ~IsAuto(path)) =>
      \A p \in 1..Len(path) :
        (/\ ~Known(path[p]) /\ path[p] # TokStar /\ ~IsFingerprint(path[p])
         /\ \A q \in 1..(p - 1) : Known(path[q]))
        => result = Failed(RouterNotFound(path[p])) /\ requests = <<>>

(* C14: a token that is a 40-character hex fingerprint, with or without   *)
(* the sigil, and unknown to the snapshot, is passed through verbatim as   *)
(* the hop at its position, and the build request is submitted with it.    *)
C14_FingerprintPassesThrough ==
    (cmd = "build" /\ pc # "start" /\ ~IsAuto(path)) =>
      \A p \in 1..Len(path) :
        (/\ ~Known(path[p]) /\ IsFingerprint(path[p])
         /\ \A q \in 1..Len(path) : q # p => Known(path[q]))
        => /\ Len(requests) = 1
           /\ Len(requests[1].hops) = Len(path)
           /\ requests[1].hops[p] = Verbatim(path[p])

(* The hops a resolved path may have at position p *)
HopsFor(p) ==
    IF path[p] = TokStar
    THEN IF p = 1 THEN entry_guards ELSE Range(state_routers)
    ELSE IF path[p] \in DOMAIN state_routers THEN {state_routers[path[p]]}
    ELSE {state_routers[Cat(Sigil, path[p])]}

(* C15: in a path of wildcards and known tokens, the wildcard at position *)
(* 0 resolves to an entry guard and at a later position to a router of the *)
(* snapshot, every other token to its own router, each at the position of  *)
(* its token, and the build request is submitted with that path.           *)
C15_WildcardResolvesToMember ==
    (/\ cmd = "build" /\ pc # "start" /\ ~IsAuto(path)
     /\ \E p \in 1..Len(path) : path[p] = TokStar
     /\ \A p \in 1..Len(path) : path[p] = TokStar \/ Known(path[p]))
    => /\ Len(requests) = 1
       /\ Len(requests[1].hops) = Len(path)
       /\ \A p \in 1..Len(path) : requests[1].hops[p] \in HopsFor(p)

(* What does hold of the wildcard: the same, when the snapshot has an     *)
(* entry guard or position 0 is not a wildcard.                            *)
WildcardResolvesGivenGuards ==
    (/\ cmd = "build" /\ pc # "start" /\ ~IsAuto(path)
     /\ \E p \in 1..Len(path) : path[p] = TokStar
     /\ \A p \in 1..Len(path) : path[p] = TokStar \/ Known(path[p])
     /\ ~(path[1] = TokStar /\ entry_guards = {}))
    => /\ Len(requests) = 1
       /\ Len(requests[1].hops) = Len(path)
       /\ \A p \in 1..Len(path) : requests[1].hops[p] \in HopsFor(p)

(* Path ["*", "*"] has been submitted as an entry guard and a router. *)
WildcardWitness ==
    /\ cmd = "build" /\ path = <<TokStar, TokStar>>
    /\ Len(requests) = 1 /\ requests[1].hops = <<RG, RA>>

(* C16: with no count and not once, every delivery is emitted and no      *)
(* delivery raises, resolves the completion signal or completes run.       *)
C16_UnboundedEmitsAll ==
    /\ []((cmd = "events" /\ ~Policy.set) => (emitted = deliveries /\ cbErrors = 0))
    /\ [][(cmd = "events" /\ ~Policy.set /\ deliveries' # deliveries)
          => (all_done' = all_done /\ result' = result /\ pc' = pc)]_vars

(* C16 witness: two event classes subscribed with no count, four          *)
(* deliveries, four payloads emitted, the signal and run still pending.    *)
C16_Witness ==
    /\ cmd = "events" /\ ~once /\ count = NoCount
    /\ Len(evListeners) = 2 /\ evListeners[1].event # evListeners[2].event
    /\ deliveries = 4 /\ emitted = 4
    /\ all_done = Pending /\ result = Pending /\ pc = "waiting"

(* C17: when the daemon rejects the build request with a protocol error,  *)
(* build_circuit completes with a failure carrying that error; the request *)
(* was submitted once and no circuit listener is registered.               *)
C17_RejectionIsFatal ==
    (cmd = "build" /\ pc = "done" /\ requests # <<>> /\ newId = 0)
    => /\ result = Failed(TorProtocolError)
       /\ Len(requests) = 1 /\ listeners = <<>>

(* C18: once an unbounded subscription to CIRC and STREAM has been        *)
(* cancelled after 2 deliveries, both listeners are unregistered, and no   *)
(* callback of it runs and nothing is emitted afterwards.                  *)
C18_CancelUnregisters ==
    (/\ cmd = "events" /\ ~Policy.set /\ cancelledAt = 2
     /\ Len(events) = 2 /\ {Upper(events[1]), Upper(events[2])} = SupportedEvents)
    => (evListeners = <<>> /\ deliveries = cancelledAt /\ emitted = cancelledAt)

(* C19: each listener _when_updated registers fires its Deferred at most  *)
(* once and is removed on the refresh that fires it; while _await_router   *)
(* waits exactly one NEWCONSENSUS listener is registered, the one of the   *)
(* Deferred it waits on; once the loop has resolved none is registered.    *)
C19_OneShotListener ==
    cmd = "await" =>
      /\ cbErrors = 0
      /\ \A i \in 1..Len(ncListeners) : ncListeners[i] \notin whenFired
      /\ pc = "waiting" => (ncListeners = <<waitingOn>> /\ whenFired = 1..(created - 1))
      /\ pc = "done" => (ncListeners = <<>> /\ whenFired = 1..created)

(* C19 witness: two refreshes without the router: two listeners fired and *)
(* were removed, the third is registered and waited on.                    *)
C19_Witness ==
    /\ cmd = "await" /\ pc = "waiting" /\ seen = <<FALSE, FALSE, FALSE>>
    /\ whenFired = {1, 2} /\ created = 3 /\ ncListeners = <<3>> /\ waitingOn = 3

(* C20: every name a listener is registered for is one of the supported   *)
(* event classes, and run goes on to wait only if every requested name,    *)
(* upper-cased, is one of them.                                            *)
C20_AcceptedOnlyIfSupported ==
    (cmd = "events" /\ pc # "start") =>
      /\ \A i \in 1..Len(evListeners) : evListeners[i].event \in SupportedEvents
      /\ pc = "waiting" => \A i \in 1..Len(events) : Upper(events[i]) \in SupportedEvents

(* C21: a subscription whose list of names holds an unsupported one never *)
(* completes successfully: once it has settled it has failed.              *)
C21_UnsupportedNameFails ==
    (/\ cmd = "events" /\ ~list_events /\ pc # "start"
     /\ \E i \in 1..Len(events) : Upper(events[i]) \notin SupportedEvents)
    => /\ result.st # "ok"
       /\ pc = "done" => result.st = "err"

(* C22, as claimed: _run_command stops the reactor once, when d has        *)
(* settled and never while the command is pending, and the exit code is 1  *)
(* if and only if connecting or the command settled with a failure,        *)
(* otherwise 0.                                                            *)
C22_StopsOnceExitCode ==
    cmd = "run" =>
      /\ stops <= 1
      /\ stops = 1 <=> Settled(result)
      /\ stops = 1 => command # Pending
      /\ exitCode # -1 => (pc = "exited" /\ stops = 1)
      /\ pc = "exited" =>
           exitCode = (IF tor.st = "err" \/ command.st = "err" THEN 1 ELSE 0)

(* C22, amended: the same, the exit code being 1 if and only if            *)
(* connecting, the version query of --info or the command settled with a   *)
(* failure, otherwise 0.                                                   *)
C22_StopsOnceExitCodeOfStartup ==
    cmd = "run" =>
      /\ stops <= 1
      /\ stops = 1 <=> Settled(result)
      /\ stops = 1 => command # Pending
      /\ exitCode # -1 => (pc = "exited" /\ stops = 1)
      /\ pc = "exited" =>
           exitCode = (IF tor.st = "err" \/ info.st = "err" \/ command.st = "err"
                       THEN 1 ELSE 0)

(* C22 witness: connected, the version printed, the command failed later:  *)
(* the reactor was stopped once and the process exited with 1.             *)
C22_Witness ==
    /\ cmd = "run" /\ pc = "exited" /\ cfg_info
    /\ tor = Ok /\ info = Ok /\ command = Failed(TorProtocolError)
    /\ result = command /\ stops = 1 /\ codes = 1 /\ exitCode = 1

(* The command succeeded: the reactor was stopped once, exit code 0. *)
C22_WitnessSuccess ==
    /\ cmd = "run" /\ pc = "exited" /\ tor = Ok /\ command = Ok
    /\ result = Ok /\ stops = 1 /\ exitCode = 0

====
